---- MODULE Spec2Model ----
(***************************************************************************)
(* salt/proxy/junos.py: the Junos proxy module.  One process is modelled:  *)
(* its module-level registry `thisproxy`, the calls made into the module  *)
(* (init, shutdown, conn, initialized, ping, get_serialized_facts) and,   *)
(* when init takes the listener branch, the accept loop with the          *)
(* byte-by-byte handshake parser of _launch_junos_proxy.                  *)
(*                                                                         *)
(* Python str values are sequences of one-character strings; a dict is a  *)
(* function whose DOMAIN is its key set, so "key absent" and "key present *)
(* with value None" are different states.  The module is Python 2 code:   *)
(* socket.recv returns a str, '' at end of stream.                        *)
(***************************************************************************)
EXTENDS Integers, Sequences, FiniteSets, TLC

VARIABLES
    pc,          \* "idle": no call active; "accept": blocked in s.accept() (line 123);
                 \* "parse": inside _launch_junos_proxy (lines 141-161)
    thisproxy,   \* the module-level dict `thisproxy` (line 58)
    device,      \* the jnpr Device object thisproxy['conn'] refers to
    given,       \* the opts dict of the latest init call, as the caller passed it
    opts,        \* the opts dict of the latest init call, as init left it
    args,        \* the args dict init built in its latest call
    result,      \* how the latest call ended, NoResult while init is in the accept loop
    ninit,       \* number of init calls made
    listenSock,  \* the listening socket `s` of init (lines 118-121)
    client,      \* the accepted socket `client`
    sent,        \* every byte the peer sends on the accepted connection
    peerClosed,  \* the peer has closed the connection
    nread,       \* number of bytes recv has returned from the connection
    msg,         \* local `msg` of _launch_junos_proxy
    count,       \* local `count`
    val,         \* local `val`
    nconn,       \* number of connections accepted by this listener
    spawned      \* the subprocess.Popen calls made, in order

vars == <<pc, thisproxy, device, given, opts, args, result, ninit, listenSock,
          client, sent, peerClosed, nread, msg, count, val, nconn, spawned>>

sessionVars == <<thisproxy, device>>
listenerVars == <<listenSock, client, sent, peerClosed, nread, msg, count, val,
                  nconn, spawned>>

(***************************************************************************)
(* Bounds of the model.                                                    *)
(***************************************************************************)
MaxInits == 2
MaxConns == 2
FillLen == 150

(***************************************************************************)
(* Python values.                                                          *)
(***************************************************************************)
\* None where the other values are atoms (config values, args)
None == "<None>"
\* None where the other values are str (the values of `val`)
NoneStr == <<"<None>">>
NoExc == "<none>"
EmptyDict == <<>>

Min(S) == CHOOSE x \in S : \A y \in S : x <= y

\* dict.pop / del: the dict without key k
DictRemove(d, k) == [x \in DOMAIN d \ {k} |-> d[x]]
\* d[k] = v
DictSet(d, k, v) == (k :> v) @@ d

\* str.find(ch): 0-based index of the first occurrence, -1 when there is none
Find(s, ch) ==
    IF \E i \in 1..Len(s) : s[i] = ch
    THEN Min({i \in 1..Len(s) : s[i] = ch}) - 1
    ELSE -1

\* str.split(sep): cut at every non-overlapping occurrence, left to right
RECURSIVE Split(_, _)
Split(s, sep) ==
    LET n == Len(sep)
        hits == {i \in 1..(Len(s) - n + 1) : SubSeq(s, i, i + n - 1) = sep}
    IN  IF hits = {} THEN <<s>>
        ELSE LET i == Min(hits)
             IN  <<SubSeq(s, 1, i - 1)>> \o Split(SubSeq(s, i + n, Len(s)), sep)

Digit(d) ==
    CASE d = 0 -> "0" [] d = 1 -> "1" [] d = 2 -> "2" [] d = 3 -> "3"
      [] d = 4 -> "4" [] d = 5 -> "5" [] d = 6 -> "6" [] d = 7 -> "7"
      [] d = 8 -> "8" [] d = 9 -> "9"

\* str(n) for n >= 0
RECURSIVE Str(_)
Str(n) == IF n < 10 THEN <<Digit(n)>> ELSE Str(n \div 10) \o <<Digit(n % 10)>>

\* Python truth value of a str-or-None
Truthy(v) == v # NoneStr /\ v # <<>>

(***************************************************************************)
(* The handshake parser, lines 134-153.                                    *)
(***************************************************************************)
CR == "\r"
LF == "\n"
MSG_ID == <<"M", "S", "G", "-", "I", "D">>
MSG_VER == <<"M", "S", "G", "-", "V", "E", "R">>
DEVICE_ID == <<"D", "E", "V", "I", "C", "E", "-", "I", "D">>
SEP == <<":", " ">>

\* val = {'MSG-ID': None, 'MSG-VER': None, 'DEVICE-ID': None}
InitVal == (MSG_ID :> NoneStr) @@ (MSG_VER :> NoneStr) @@ (DEVICE_ID :> NoneStr)
InitCount == 3
MsgCap == 100

\* the cap tested one byte late
LoopCondOffByOne(m, n) == Len(m) <= MsgCap /\ n > 0

\* while len(msg) < 100 and count > 0
LoopCond(m, n) == Len(m) < MsgCap /\ n > 0

\* if msg.find(':'): an int is true unless it is 0
ColonGuard(m) == Find(m, ":") # 0

\* the loop body storing only the keys val starts with
ParseByteKnownKeys(m, n, v, c) ==
    IF c = <<CR>>
    THEN [msg |-> m, count |-> n, val |-> v, exc |-> NoExc]
    ELSE IF c = <<LF>>
    THEN IF ColonGuard(m)
         THEN LET parts == Split(m, SEP)
              IN  IF Len(parts) = 2
                  THEN [msg |-> <<>>, count |-> n - 1,
                        val |-> IF parts[1] \in DOMAIN v
                                THEN DictSet(v, parts[1], parts[2]) ELSE v,
                        exc |-> NoExc]
                  ELSE [msg |-> m, count |-> n - 1, val |-> v, exc |-> "ValueError"]
         ELSE [msg |-> m, count |-> n - 1, val |-> v, exc |-> NoExc]
    ELSE [msg |-> m \o c, count |-> n, val |-> v, exc |-> NoExc]

\* the body of the loop for the byte c just received: c is a str of length 0 or 1.
\* exc is the exception the body raises, NoExc when it completes.
ParseByte(m, n, v, c) ==
    IF c = <<CR>>
    THEN [msg |-> m, count |-> n, val |-> v, exc |-> NoExc]
    ELSE IF c = <<LF>>
    THEN IF ColonGuard(m)
         THEN LET parts == Split(m, SEP)
              IN  IF Len(parts) = 2
                  THEN [msg |-> <<>>, count |-> n - 1,
                        val |-> DictSet(v, parts[1], parts[2]), exc |-> NoExc]
                  ELSE [msg |-> m, count |-> n - 1, val |-> v, exc |-> "ValueError"]
         ELSE [msg |-> m, count |-> n - 1, val |-> v, exc |-> NoExc]
    ELSE [msg |-> m \o c, count |-> n, val |-> v, exc |-> NoExc]

\* ['/usr/bin/salt-proxy', '--proxyid', val['DEVICE-ID'], '--sockfd', str(fh),
\*  '--disable-keepalive']
SpawnArgv(v, fh) ==
    <<"/usr/bin/salt-proxy", "--proxyid", v[DEVICE_ID], "--sockfd", Str(fh),
      "--disable-keepalive">>

\* if val['DEVICE-ID']:
SpawnGuard(v) == Truthy(v[DEVICE_ID])

(***************************************************************************)
(* The calls' inputs and the collaborators' outcomes.                      *)
(***************************************************************************)
\* the optional credential keys of opts['proxy'] tried
CredDicts ==
    { EmptyDict,
      [username |-> "x"],
      [username |-> "x", user |-> "u"],
      [user |-> "u", passwd |-> "p"] }

\* opts['proxy']: host present or not, with a port and one of the credential
\* sets, or with neither
ProxyDicts ==
    { h @@ [port |-> "830"] @@ c : h \in {EmptyDict, [host |-> "r1"]}, c \in CredDicts }
    \cup {EmptyDict, [host |-> "r1"]}

\* the top level of opts: always an id, with or without the inherited socket
TopDicts == { [id |-> "vmx"], [id |-> "vmx", sock_fd |-> "7"] }

Configs == [top : TopDicts, proxy : ProxyDicts]

\* the fact sets a device reports once opened: with the SDK's own mapping
\* types under version_info and junos_info[re]['object'], or without them
SdkMap(x) == [type |-> "sdk", items |-> x]
PlainMap(x) == [type |-> "dict", items |-> x]
FactSets ==
    { [hostname |-> "r1"],
      [hostname |-> "r1", version_info |-> SdkMap("15.1R1"),
       junos_info |-> [re0 |-> [text |-> "15.1R1", object |-> SdkMap("15.1R1")],
                       re1 |-> [text |-> "15.1R2", object |-> SdkMap("15.1R2")]]] }

\* no Device object yet
NoDevice == [id |-> 0]
NoSock == [fd |-> 0]
\* the descriptors accept() may return
ClientFds == {4, 11}

\* how a call ended: exc is the exception that left it (NoExc when it returned),
\* ret the value returned, caught the exception it handled itself
NoResult == [op |-> "none", exc |-> NoExc, ret |-> None, caught |-> NoExc]
Returned(op, r) == [op |-> op, exc |-> NoExc, ret |-> r, caught |-> NoExc]
Raised(op, e) == [op |-> op, exc |-> e, ret |-> None, caught |-> NoExc]

(***************************************************************************)
(* init(opts), lines 76-131.                                               *)
(***************************************************************************)
\* the list without the spelling passwd
optional_args_canonical ==
    <<"user", "username", "password", "port", "gather_facts", "mode",
      "baud", "attempts", "auto_probe", "ssh_private_key_file", "ssh_config",
      "normalize">>

optional_args ==
    <<"user", "username", "password", "passwd", "port", "gather_facts", "mode",
      "baud", "attempts", "auto_probe", "ssh_private_key_file", "ssh_config",
      "normalize">>

\* the configured host never taken
ConnectArgsNoHost(o) ==
    [host |-> None,
     sock_fd |-> IF "sock_fd" \in DOMAIN o.top THEN o.top["sock_fd"] ELSE None]

\* lines 84-92: host and sock_fd are always keys of args, None when not configured
ConnectArgs(o) ==
    [host |-> IF "host" \in DOMAIN o.proxy THEN o.proxy["host"] ELSE None,
     sock_fd |-> IF "sock_fd" \in DOMAIN o.top THEN o.top["sock_fd"] ELSE None]

\* a configured user wins over username
AliasUserKeepsUser(proxy) ==
    IF "username" \in DOMAIN proxy
    THEN IF "user" \in DOMAIN proxy
         THEN DictRemove(proxy, "username")
         ELSE DictSet(DictRemove(proxy, "username"), "user", proxy["username"])
    ELSE proxy

\* lines 109-110: opts['proxy']['user'] = opts['proxy'].pop('username')
AliasUser(proxy) ==
    IF "username" \in DOMAIN proxy
    THEN DictSet(DictRemove(proxy, "username"), "user", proxy["username"])
    ELSE proxy

\* lines 111-114: copy every optional argument that is a key of proxy
RECURSIVE CopyOptional(_, _, _)
CopyOptional(a, proxy, i) ==
    IF i > Len(optional_args) THEN a
    ELSE CopyOptional(IF optional_args[i] \in DOMAIN proxy
                      THEN DictSet(a, optional_args[i], proxy[optional_args[i]])
                      ELSE a,
                      proxy, i + 1)

\* lines 81-114: opts as init leaves it
OptsAfter(o) ==
    [top |-> DictSet(o.top, "multiprocessing", "False"), proxy |-> AliasUser(o.proxy)]

\* lines 84-114: the args dict
BuildArgs(o) == CopyOptional(ConnectArgs(o), AliasUser(o.proxy), 1)

\* the inherited socket not looked at
ListenerModeHostOnly(a) == a["host"] = None

\* line 116
ListenerMode(a) == a["sock_fd"] = None /\ a["host"] = None

\* jnpr.junos.Device(**args): a new, unopened Device
NewDevice(n) ==
    [id |-> n, connected |-> FALSE, cu |-> FALSE, sw |-> FALSE, facts |-> EmptyDict]

\* lines 127-131 when open() returns: the registry and the Device
OpenedRegistry(tp, n) == DictSet(DictSet(tp, "conn", n), "initialized", TRUE)

\* lines 127-128 when open() raises: line 127 has stored the Device already
FailedRegistry(tp, n) == DictSet(tp, "conn", n)

InitListen(o) ==
    /\ ListenerMode(BuildArgs(o))
    /\ given' = o
    /\ opts' = OptsAfter(o)
    /\ args' = BuildArgs(o)
    /\ ninit' = ninit + 1
    /\ IF "port" \in DOMAIN OptsAfter(o).proxy
       THEN \* lines 118-122: socket, setsockopt, bind, listen, then accept blocks
            /\ listenSock' = [fd |-> 3, reuse |-> TRUE,
                              port |-> OptsAfter(o).proxy["port"], backlog |-> 5]
            /\ pc' = "accept"
            /\ nconn' = 0
            /\ spawned' = <<>>
            /\ result' = NoResult
       ELSE \* line 120: opts['proxy']['port'] raises KeyError; s is dropped
            /\ listenSock' = NoSock
            /\ pc' = "idle"
            /\ result' = Raised("init", "KeyError")
            /\ UNCHANGED <<nconn, spawned>>
    /\ UNCHANGED <<sessionVars, client, sent, peerClosed, nread, msg, count, val>>

InitDirect(o) ==
    /\ ~ListenerMode(BuildArgs(o))
    /\ given' = o
    /\ opts' = OptsAfter(o)
    /\ args' = BuildArgs(o)
    /\ ninit' = ninit + 1
    /\ \/ \* open() returns: bind cu, bind sw, initialized = True
          \E f \in FactSets :
            /\ device' = [NewDevice(ninit + 1) EXCEPT
                             !.connected = TRUE, !.cu = TRUE, !.sw = TRUE,
                             !.facts = f]
            /\ thisproxy' = OpenedRegistry(thisproxy, ninit + 1)
            /\ result' = Returned("init", None)
       \/ \* open() raises: the SDK's error leaves init
          /\ device' = NewDevice(ninit + 1)
          /\ thisproxy' = FailedRegistry(thisproxy, ninit + 1)
          /\ result' = Raised("init", "ConnectError")
    /\ UNCHANGED <<pc, listenerVars>>

init(o) ==
    /\ pc = "idle"
    /\ ninit < MaxInits
    /\ \/ InitListen(o)
       \/ InitDirect(o)

(***************************************************************************)
(* The accept loop of init (lines 122-124) and _launch_junos_proxy.        *)
(***************************************************************************)
\* the byte streams a peer sends in the full model
HELLO == MSG_ID \o SEP \o <<"4", "2", CR, LF>> \o MSG_VER \o SEP \o <<"1", CR, LF>>
DEV(v) == DEVICE_ID \o SEP \o v
GARBAGE == <<"g", "a", "r", "b", "a", "g", "e", "l", "i", "n", "e">>
VMX1 == <<"v", "m", "x", "1">>
Streams ==
    { HELLO \o DEV(VMX1) \o <<CR, LF>>,
      HELLO \o DEV(<<>>) \o <<LF>>,
      DEV(VMX1) \o <<LF>>,
      DEV(VMX1) \o <<LF>> \o GARBAGE \o <<LF>>,
      GARBAGE \o <<LF>> }

\* lines 123-124 and 134-140: accept returns a connected socket, and
\* _launch_junos_proxy sets up its locals
Accept(fd, stream) ==
    /\ pc = "accept"
    /\ nconn < MaxConns
    /\ client' = [fd |-> fd]
    /\ sent' = stream
    /\ peerClosed' = FALSE
    /\ nread' = 0
    /\ val' = InitVal
    /\ msg' = <<>>
    /\ count' = InitCount
    /\ nconn' = nconn + 1
    /\ pc' = "parse"
    /\ UNCHANGED <<sessionVars, given, opts, args, result, ninit, listenSock, spawned>>

\* lines 141-153, one iteration with a byte of the stream: c = client.recv(1).
\* An exception leaves _launch_junos_proxy and init; s and client are dropped.
Recv ==
    /\ pc = "parse"
    /\ LoopCond(msg, count)
    /\ nread < Len(sent)
    /\ LET r == ParseByte(msg, count, val, <<sent[nread + 1]>>)
       IN  /\ nread' = nread + 1
           /\ msg' = r.msg
           /\ count' = r.count
           /\ val' = r.val
           /\ IF r.exc = NoExc
              THEN UNCHANGED <<pc, result, listenSock, client>>
              ELSE /\ pc' = "idle"
                   /\ result' = Raised("init", r.exc)
                   /\ listenSock' = NoSock
                   /\ client' = NoSock
    /\ UNCHANGED <<sessionVars, given, opts, args, ninit, sent, peerClosed, nconn, spawned>>

\* the peer closes the connection once the listener has read all it sent
PeerClose ==
    /\ pc = "parse"
    /\ LoopCond(msg, count)
    /\ nread = Len(sent)
    /\ ~peerClosed
    /\ peerClosed' = TRUE
    /\ UNCHANGED <<pc, sessionVars, given, opts, args, result, ninit, listenSock, client,
                   sent, nread, msg, count, val, nconn, spawned>>

\* lines 141-153, one iteration at the end of the stream: recv returns ''
RecvEOF ==
    /\ pc = "parse"
    /\ LoopCond(msg, count)
    /\ nread = Len(sent)
    /\ peerClosed
    /\ LET r == ParseByte(msg, count, val, <<>>)
       IN  /\ msg' = r.msg
           /\ count' = r.count
           /\ val' = r.val
    /\ UNCHANGED <<pc, sessionVars, given, opts, args, result, ninit, listenSock, client,
                   sent, peerClosed, nread, nconn, spawned>>

\* the worker is spawned and the listener reads on from the same socket
LaunchKeepsReading ==
    /\ pc = "parse"
    /\ ~LoopCond(msg, count)
    /\ spawned' = IF SpawnGuard(val)
                  THEN Append(spawned, [conn |-> nconn, argv |-> SpawnArgv(val, client.fd)])
                  ELSE spawned
    /\ msg' = <<>>
    /\ count' = InitCount
    /\ UNCHANGED <<pc, sessionVars, given, opts, args, result, ninit, listenSock, client,
                   sent, peerClosed, nread, val, nconn>>

\* lines 155-161, then back to line 123
Launch ==
    /\ pc = "parse"
    /\ ~LoopCond(msg, count)
    /\ spawned' = IF SpawnGuard(val)
                  THEN Append(spawned, [conn |-> nconn, argv |-> SpawnArgv(val, client.fd)])
                  ELSE spawned
    /\ pc' = "accept"
    /\ UNCHANGED <<sessionVars, given, opts, args, result, ninit, listenSock, client, sent,
                   peerClosed, nread, msg, count, val, nconn>>

(***************************************************************************)
(* The accessors and shutdown, lines 164-210.                              *)
(***************************************************************************)
\* thisproxy.get('initialized', False)
InitializedValue(tp) == IF "initialized" \in DOMAIN tp THEN tp["initialized"] ELSE FALSE

initialized ==
    /\ pc = "idle"
    /\ result' = Returned("initialized", InitializedValue(thisproxy))
    /\ UNCHANGED <<pc, sessionVars, given, opts, args, ninit, listenerVars>>

\* thisproxy['conn']
conn ==
    /\ pc = "idle"
    /\ result' = IF "conn" \in DOMAIN thisproxy
                 THEN Returned("conn", thisproxy["conn"])
                 ELSE Raised("conn", "KeyError")
    /\ UNCHANGED <<pc, sessionVars, given, opts, args, ninit, listenerVars>>

proxytype ==
    /\ pc = "idle"
    /\ result' = Returned("proxytype", "junos")
    /\ UNCHANGED <<pc, sessionVars, given, opts, args, ninit, listenerVars>>

\* lines 180-183: dict(facts), a copy of the top level only, with version_info
\* replaced in the copy
SerializedTop(f) ==
    IF "version_info" \in DOMAIN f
    THEN [f EXCEPT !["version_info"] = PlainMap(@.items)]
    ELSE f

\* lines 186-189: junos_info is the same dict in the copy and in the Device's
\* facts, so the assignment to [re]['object'] is made in both
SerializedInfo(f) ==
    IF "junos_info" \in DOMAIN f
    THEN [f EXCEPT !["junos_info"] =
             [re \in DOMAIN @ |-> [@[re] EXCEPT !.object = PlainMap(@.items)]]]
    ELSE f

get_serialized_facts ==
    /\ pc = "idle"
    /\ IF "conn" \in DOMAIN thisproxy
       THEN /\ result' = Returned("get_serialized_facts",
                                  SerializedInfo(SerializedTop(device.facts)))
            /\ device' = [device EXCEPT !.facts = SerializedInfo(@)]
       ELSE /\ result' = Raised("get_serialized_facts", "KeyError")
            /\ UNCHANGED device
    /\ UNCHANGED <<pc, thisproxy, given, opts, args, ninit, listenerVars>>

ping ==
    /\ pc = "idle"
    /\ result' = IF "conn" \in DOMAIN thisproxy
                 THEN Returned("ping", device.connected)
                 ELSE Raised("ping", "KeyError")
    /\ UNCHANGED <<pc, sessionVars, given, opts, args, ninit, listenerVars>>

\* no except clause: e leaves shutdown
Propagated(op, e) == Raised(op, e)

\* lines 206-210: the try block raised e; except Exception: pass
Swallowed(op, e) == [op |-> op, exc |-> NoExc, ret |-> None, caught |-> e]

\* shutdown that also takes the session out of the registry
shutdownResets ==
    /\ pc = "idle"
    /\ \/ /\ "conn" \notin DOMAIN thisproxy
          /\ result' = Swallowed("shutdown", "KeyError")
          /\ UNCHANGED <<thisproxy, device>>
       \/ /\ "conn" \in DOMAIN thisproxy
          /\ device' = [device EXCEPT !.connected = FALSE]
          /\ thisproxy' = DictSet(thisproxy, "initialized", FALSE)
          /\ result' = Returned("shutdown", None)
    /\ UNCHANGED <<pc, given, opts, args, ninit, listenerVars>>

\* shutdown(opts): thisproxy['conn'].close() inside try / except Exception
shutdown ==
    /\ pc = "idle"
    /\ \/ \* no 'conn' key: KeyError inside the try block
          /\ "conn" \notin DOMAIN thisproxy
          /\ result' = Swallowed("shutdown", "KeyError")
          /\ UNCHANGED device
       \/ \* close() returns
          /\ "conn" \in DOMAIN thisproxy
          /\ device' = [device EXCEPT !.connected = FALSE]
          /\ result' = Returned("shutdown", None)
       \/ \* close() raises
          /\ "conn" \in DOMAIN thisproxy
          /\ result' = Swallowed("shutdown", "RpcError")
          /\ UNCHANGED device
    /\ UNCHANGED <<pc, thisproxy, given, opts, args, ninit, listenerVars>>

(***************************************************************************)
(* The process: thisproxy = {} at import, no call made yet.                *)
(***************************************************************************)
Init ==
    /\ pc = "idle"
    /\ thisproxy = EmptyDict
    /\ device = NoDevice
    /\ given = [top |-> EmptyDict, proxy |-> EmptyDict]
    /\ opts = [top |-> EmptyDict, proxy |-> EmptyDict]
    /\ args = EmptyDict
    /\ result = NoResult
    /\ ninit = 0
    /\ listenSock = NoSock
    /\ client = NoSock
    /\ sent = <<>>
    /\ peerClosed = FALSE
    /\ nread = 0
    /\ msg = <<>>
    /\ count = InitCount
    /\ val = InitVal
    /\ nconn = 0
    /\ spawned = <<>>

Next ==
    \/ \E o \in Configs : init(o)
    \/ \E fd \in ClientFds, stream \in Streams : Accept(fd, stream)
    \/ Recv
    \/ PeerClose
    \/ RecvEOF
    \/ Launch
    \/ initialized
    \/ conn
    \/ proxytype
    \/ get_serialized_facts
    \/ ping
    \/ shutdown

Spec == Init /\ [][Next]_vars

(***************************************************************************)
(* The handshake parser on its own: a listener that has just accepted a    *)
(* connection, with the peer's whole byte stream drawn from ParseStreams.  *)
(***************************************************************************)
Fill(n) == [i \in 1..n |-> "x"]
FOO_BAR == <<"F", "O", "O", ":", " ", "b", "a", "r">>
Lines ==
    { MSG_ID \o SEP \o <<"4", "2">>,
      MSG_VER \o SEP \o <<"2">>,
      DEV(VMX1),
      DEV(<<>>),
      DEV(<<"a", ":", " ", "b">>),
      GARBAGE,
      <<>>,
      <<":", "x">>,
      FOO_BAR,
      MSG_ID \o SEP \o Fill(MsgCap) }
Tails == { <<>>, <<"z", "z">> }
Terminated(line, eol) == line \o eol
LineStreams ==
    UNION { { <<>>,
              Terminated(l1, eol),
              Terminated(l1, eol) \o Terminated(l2, eol),
              Terminated(l1, eol) \o Terminated(l2, eol) \o Terminated(l3, eol) }
            : l1 \in Lines, l2 \in Lines, l3 \in Lines, eol \in {<<LF>>, <<CR, LF>>} }
\* streams without any line end, MsgCap bytes or more
Unterminated ==
    { Fill(MsgCap), Fill(FillLen), DEV(Fill(FillLen)), <<":">> \o Fill(FillLen) }
ParseStreams == { s \o t : s \in LineStreams, t \in Tails } \cup Unterminated

ListenerConfig == [top |-> [id |-> "vmx"], proxy |-> [port |-> "830"]]

InitParse ==
    /\ pc = "parse"
    /\ thisproxy = EmptyDict
    /\ device = NoDevice
    /\ given = ListenerConfig
    /\ opts = OptsAfter(ListenerConfig)
    /\ args = BuildArgs(ListenerConfig)
    /\ result = NoResult
    /\ ninit = 1
    /\ listenSock = [fd |-> 3, reuse |-> TRUE, port |-> "830", backlog |-> 5]
    /\ client \in {[fd |-> fd] : fd \in ClientFds}
    /\ sent \in ParseStreams
    /\ peerClosed = FALSE
    /\ nread = 0
    /\ msg = <<>>
    /\ count = InitCount
    /\ val = InitVal
    /\ nconn = 1
    /\ spawned = <<>>

NextParse ==
    \/ Recv
    \/ PeerClose
    \/ RecvEOF
    \/ Launch

SpecParse == InitParse /\ [][NextParse]_vars

(***************************************************************************)
(* Properties.                                                             *)
(***************************************************************************)
InLoop == pc \in {"accept", "parse"}
NoSeparator(m) == \A i \in 1..(Len(m) - 1) : SubSeq(m, i, i + 1) # SEP
NoLineEnd(s) == \A i \in 1..Len(s) : s[i] \notin {CR, LF}
IsPrefix(h, s) == Len(h) <= Len(s) /\ SubSeq(s, 1, Len(h)) = h
SpawnsOf(c) == {i \in 1..Len(spawned) : spawned[i].conn = c}
HostOnly == "host" \in DOMAIN opts.proxy /\ "sock_fd" \notin DOMAIN opts.top
SockOnly == "host" \notin DOMAIN opts.proxy /\ "sock_fd" \in DOMAIN opts.top
NeitherConfigured == "host" \notin DOMAIN opts.proxy /\ "sock_fd" \notin DOMAIN opts.top

\* C1: in listener mode the accept loop is never exited: whatever a connection
\* sends, init stays in the loop (accepting or handling a connection) and no
\* error leaves it.
C1_ListenerNeverExits == [][InLoop => InLoop']_vars

\* C2: when recv returns a line feed and the accumulated line holds no ': ',
\* no error is raised, the Handshake Record is left as it was, the line is
\* counted against the budget and parsing goes on.
C2_Step ==
    (pc = "parse" /\ nread' = nread + 1 /\ sent[nread'] = LF /\ NoSeparator(msg))
    => (pc' = "parse" /\ result' = result /\ val' = val /\ count' = count - 1)
C2_LineWithoutSeparatorDropped == [][C2_Step]_vars

\* C3: once the handling of an accepted connection is over, a worker was
\* spawned for it if and only if its DEVICE-ID is non-empty; the spawn carries
\* that DEVICE-ID and the descriptor of that connection's socket; with an empty
\* or absent DEVICE-ID nothing was spawned and the listener is accepting again.
C3_SpawnIffDeviceId ==
    (nconn > 0 /\ pc # "parse") =>
        /\ Truthy(val[DEVICE_ID]) <=> SpawnsOf(nconn) # {}
        /\ \A i \in SpawnsOf(nconn) :
              spawned[i].argv = <<"/usr/bin/salt-proxy", "--proxyid", val[DEVICE_ID],
                                  "--sockfd", Str(client.fd), "--disable-keepalive">>
        /\ ~Truthy(val[DEVICE_ID]) => (pc = "accept" /\ SpawnsOf(nconn) = {})

\* the 'KEY: VALUE' lines of Lines with one of the three keys, cut at the first ': '
KeyLines ==
    UNION { { [key |-> k, value |-> SubSeq(l, Len(k) + 3, Len(l)), line |-> l] :
                l \in {x \in Lines : IsPrefix(k \o SEP, x)} }
            : k \in {MSG_ID, MSG_VER, DEVICE_ID} }
\* three such lines with the three keys in any order, LF or CRLF terminated
Headers ==
    { [l1 |-> a, l2 |-> b, l3 |-> c,
       bytes |-> a.line \o eol \o b.line \o eol \o c.line \o eol] :
        a \in KeyLines, b \in KeyLines, c \in KeyLines, eol \in {<<LF>>, <<CR, LF>>} }
KeyHeaders == { h \in Headers : {h.l1.key, h.l2.key, h.l3.key} = {MSG_ID, MSG_VER, DEVICE_ID} }

\* C4: for a stream that starts with three well-formed lines carrying the
\* three keys, once the handling of the connection is over the Handshake Record
\* holds exactly the three values, no error was raised, and exactly the bytes
\* of the three lines were read.
C4_ThreeLinesParsed ==
    \A h \in KeyHeaders :
        (IsPrefix(h.bytes, sent) /\ pc # "parse") =>
            /\ result.exc = NoExc
            /\ val = (h.l1.key :> h.l1.value) @@ (h.l2.key :> h.l2.value)
                        @@ (h.l3.key :> h.l3.value)
            /\ nread = Len(h.bytes)

\* C5: for a stream of at least 100 bytes without line feed or carriage return
\* the parser never reads more than 100 bytes, raises nothing, stores nothing,
\* spawns nothing, and has read exactly 100 bytes when it stops.
C5_CapStopsParser ==
    (Len(sent) >= MsgCap /\ NoLineEnd(sent)) =>
        /\ nread <= MsgCap
        /\ pc # "parse" => (pc = "accept" /\ nread = MsgCap)
        /\ result.exc = NoExc
        /\ val = InitVal
        /\ spawned = <<>>

C5_Witness ==
    /\ pc = "accept"
    /\ Len(sent) > MsgCap
    /\ NoLineEnd(sent)
    /\ nread = MsgCap
    /\ Len(msg) = MsgCap
    /\ spawned = <<>>

C6_Step ==
    /\ (ninit' = ninit + 1) =>
          IF NeitherConfigured'
          THEN /\ thisproxy' = thisproxy
               /\ device' = device
               /\ \/ InLoop' /\ listenSock' # NoSock
                  \/ /\ "port" \notin DOMAIN opts'.proxy
                     /\ pc' = "idle"
                     /\ result' = Raised("init", "KeyError")
          ELSE /\ pc' = "idle"
               /\ listenSock' = NoSock
               /\ device'.id = ninit'
               /\ "conn" \in DOMAIN thisproxy' /\ thisproxy'["conn"] = ninit'
               /\ result'.op = "init"
    /\ InLoop =>
          /\ thisproxy' = thisproxy
          /\ device' = device
          /\ InLoop' \/ result'.exc # NoExc

C7_ShutdownNeverRaises == result.op = "shutdown" => result.exc = NoExc

C7_Witness ==
    /\ result.op = "shutdown"
    /\ result.caught = "RpcError"
    /\ "conn" \in DOMAIN thisproxy
    /\ result.exc = NoExc

C8_Step ==
    (/\ ~InitializedValue(thisproxy)
     /\ pc = "idle" /\ pc' = "idle" /\ ninit' = ninit
     /\ result'.op \in {"conn", "get_serialized_facts", "ping", "initialized"})
    => /\ thisproxy' = thisproxy
       /\ device' = device
       /\ IF result'.op = "initialized"
          THEN result' = Returned("initialized", FALSE)
          ELSE result'.exc = "KeyError"

\* C8: as long as no init call has succeeded, conn, get_serialized_facts and
\* ping raise KeyError and leave the registry alone, and initialized returns
\* False.
C8_AccessorsBeforeInit == [][C8_Step]_vars

C9_Step ==
    (ninit' = ninit + 1 /\ result'.op = "init" /\ result'.exc = "ConnectError")
    => thisproxy' = thisproxy

\* C9: an init call whose session open fails leaves the registry as it was
\* before the call.
C9_FailedOpenLeavesRegistry == [][C9_Step]_vars

\* C10, as claimed: args carries only the connect-path key that was configured.
C10_OnlyConfiguredKey ==
    ninit > 0 =>
        /\ HostOnly => /\ "host" \in DOMAIN args /\ args["host"] = opts.proxy["host"]
                       /\ "sock_fd" \notin DOMAIN args
        /\ SockOnly => /\ "sock_fd" \in DOMAIN args /\ args["sock_fd"] = opts.top["sock_fd"]
                       /\ "host" \notin DOMAIN args

\* C10, amended: args always carries both connect-path keys; the configured one
\* has the configured value and the other one is present with the value None.
C10_OtherKeyIsNone ==
    ninit > 0 =>
        /\ HostOnly => /\ "host" \in DOMAIN args /\ args["host"] = opts.proxy["host"]
                       /\ "sock_fd" \in DOMAIN args /\ args["sock_fd"] = None
        /\ SockOnly => /\ "sock_fd" \in DOMAIN args /\ args["sock_fd"] = opts.top["sock_fd"]
                       /\ "host" \in DOMAIN args /\ args["host"] = None

C10_Witness ==
    /\ ninit > 0
    /\ HostOnly
    /\ device.id = ninit
    /\ args["host"] = "r1"
    /\ args["sock_fd"] = None

\* C11: after an init call, if username was configured then args.user and
\* proxy.user hold the username value (whatever user was configured as) and
\* neither args nor the proxy mapping has a username key; if username was not
\* configured, a configured user reaches args and the proxy mapping unchanged
\* and no user key appears when none was configured.
C11_UsernameAliased ==
    ninit > 0 =>
        /\ "username" \notin DOMAIN args
        /\ "username" \notin DOMAIN opts.proxy
        /\ "username" \in DOMAIN given.proxy =>
               /\ "user" \in DOMAIN args /\ args["user"] = given.proxy["username"]
               /\ "user" \in DOMAIN opts.proxy
               /\ opts.proxy["user"] = given.proxy["username"]
        /\ "username" \notin DOMAIN given.proxy =>
               /\ opts.proxy = given.proxy
               /\ "user" \in DOMAIN args <=> "user" \in DOMAIN given.proxy
               /\ "user" \in DOMAIN given.proxy => args["user"] = given.proxy["user"]

C11_Witness ==
    /\ ninit > 0
    /\ device.id = ninit
    /\ "username" \in DOMAIN given.proxy /\ "user" \in DOMAIN given.proxy
    /\ given.proxy["user"] = "u"
    /\ args["user"] = "x"

\* C12, as claimed: a configured passwd reaches args under the key password and
\* args has no passwd key.
C12_PasswdAliased ==
    (ninit > 0 /\ "passwd" \in DOMAIN given.proxy) =>
        /\ "password" \in DOMAIN args /\ args["password"] = given.proxy["passwd"]
        /\ "passwd" \notin DOMAIN args

\* C12, amended: a configured passwd is not renamed; it reaches args under the
\* key passwd with the configured value, the proxy mapping keeps it, and args
\* has a password key only when password itself was configured.
C12_PasswdCopiedAsIs ==
    (ninit > 0 /\ "passwd" \in DOMAIN given.proxy) =>
        /\ "passwd" \in DOMAIN args /\ args["passwd"] = given.proxy["passwd"]
        /\ "passwd" \in DOMAIN opts.proxy
        /\ opts.proxy["passwd"] = given.proxy["passwd"]
        /\ "password" \in DOMAIN args <=> "password" \in DOMAIN given.proxy

C12_Witness ==
    /\ ninit > 0
    /\ device.id = ninit
    /\ "passwd" \in DOMAIN given.proxy
    /\ args["passwd"] = "p"
    /\ "password" \notin DOMAIN args

C13_Step ==
    ninit' = ninit =>
        /\ \A c \in 1..nconn' : Cardinality(SpawnsOf(c)') <= 1
        /\ spawned' # spawned =>
               /\ pc = "parse" /\ pc' = "accept"
               /\ spawned' = Append(spawned, [conn |-> nconn,
                                              argv |-> SpawnArgv(val, client.fd)])
        /\ (SpawnsOf(nconn) # {} /\ nconn' = nconn) =>
               /\ pc' = "accept"
               /\ nread' = nread /\ client' = client /\ peerClosed' = peerClosed

C14_Step ==
    (pc = "idle" /\ ninit' = ninit /\ result'.op = "get_serialized_facts"
                 /\ result'.exc = NoExc) =>
        /\ device'.facts = device.facts
        /\ DOMAIN result'.ret = DOMAIN device.facts
        /\ "version_info" \in DOMAIN device.facts =>
               result'.ret["version_info"] = PlainMap(device.facts["version_info"].items)
        /\ "junos_info" \in DOMAIN device.facts =>
               \A re \in DOMAIN device.facts["junos_info"] :
                   result'.ret["junos_info"][re].object =
                       PlainMap(device.facts["junos_info"][re].object.items)

\* C14: get_serialized_facts leaves the session's live fact set as it was,
\* the type of every junos_info[re].object included, and returns a mapping
\* with the same keys in which version_info and every junos_info[re].object
\* are plain mappings with the same content.
C14_FactsDeepCopied == [][C14_Step]_vars

HandshakeKeys == {MSG_ID, MSG_VER, DEVICE_ID}
FOO == <<"F", "O", "O">>
FirstLineRead(line) ==
    \E eol \in {<<LF>>, <<CR, LF>>} :
        IsPrefix(line \o eol, sent) /\ nread >= Len(line \o eol)

LineFeedStep == pc = "parse" /\ nread' = nread + 1 /\ sent[nread'] = LF

C16_Step == (LineFeedStep /\ pc' = "parse") => msg' = <<>>

\* C16: every line feed the parser handles without an error leaves the line
\* buffer empty, whether or not the line was split, so the next line starts
\* from an empty buffer.
C16_BufferResetOnLineFeed == [][C16_Step]_vars

\* position of the first ': ' in m, 0 when there is none
FirstSep(m) ==
    IF NoSeparator(m) THEN 0
    ELSE Min({i \in 1..(Len(m) - 1) : SubSeq(m, i, i + 1) = SEP})

C17_Step ==
    (LineFeedStep /\ FirstSep(msg) > 1 /\ Find(msg, ":") = FirstSep(msg) - 1) =>
        /\ pc' = "parse"
        /\ val' = DictSet(val, SubSeq(msg, 1, FirstSep(msg) - 1),
                               SubSeq(msg, FirstSep(msg) + 2, Len(msg)))

\* C17: a line is split at its first ': ' only: at the line feed of a line
\* 'key: rest' no error is raised and rest, further ': ' included, is stored
\* under key.
C17_SplitOnFirstSeparator == [][C17_Step]_vars

\* C18: initialized() returns True only while the conn slot holds a Device
\* whose open() returned and to which both capabilities were bound.
C18_InitializedImpliesOpened ==
    (result.op = "initialized" /\ result.exc = NoExc /\ result.ret = TRUE) =>
        /\ "conn" \in DOMAIN thisproxy
        /\ device.id = thisproxy["conn"]
        /\ device.cu /\ device.sw

C19_Step ==
    /\ InitializedValue(thisproxy) => InitializedValue(thisproxy')
    /\ (pc = "idle" /\ ninit' = ninit /\ result'.op = "shutdown") =>
           /\ thisproxy' = thisproxy
           /\ device'.id = device.id

\* C19: shutdown leaves the registry as it was, so initialized() and conn()
\* answer after it as before, and no operation takes the initialized flag
\* from true back to false.
C19_ShutdownKeepsRegistry == [][C19_Step]_vars

C19_Witness ==
    /\ result.op = "conn" /\ result.exc = NoExc
    /\ result.ret = thisproxy["conn"]
    /\ InitializedValue(thisproxy)
    /\ device.id = thisproxy["conn"]
    /\ device.cu /\ device.sw /\ ~device.connected

ParserStep == Recv \/ RecvEOF \/ Launch

\* C20: once the peer has closed the connection, the parser is never stuck in
\* its loop: as long as it is inside the handshake parse it can take a step
\* that changes its state (consume a byte, count a line, leave the loop), so
\* the parse ends after boundedly many steps and the listener is back in accept.
C20_ParserEndsAtEOF ==
    (pc = "parse" /\ peerClosed) => ENABLED <<ParserStep>>_vars

====
